---------------------------- MODULE Spec2Model ----------------------------
(***************************************************************************)
(* call_tool of mcpsqlite.py: the dispatcher of an MCP server over one     *)
(* SQLite file.  Texts are sequences of one-character strings, so that     *)
(* strip(), lower(), startswith(), join() and the f-strings of the reply   *)
(* are computed, not assumed.  The sqlite3 engine is the environment: what *)
(* a statement does is looked up from its text, and where the engine may   *)
(* fail is an input of the call.                                           *)
(***************************************************************************)
EXTENDS Integers, Sequences, FiniteSets, TLC

\* ------------------------------------------------------------- bounds
\* rows the table t can hold before the engine reports "database or disk is full"
MaxRowsT == 1
\* columns a reflected table can have
MaxCols == 2
\* connections that can be left open, unreferenced, before the collector runs
MaxLeaked == 2

\* ------------------------------------------------- literals of the source
DB_PATH == <<"C", ":", "\\", "U", "s", "e", "r", "s", "\\", "y", "o", "u", "r", "-", "u", "s", "e", "r", "-", "n", "a", "m", "e", "\\", "D", "a", "t", "a", "b", "a", "s", "e", "s", "\\", "s", "q", "l", "i", "t", "e", "-", "d", "a", "t", "a", "b", "a", "s", "e", ".", "d", "b">>
MSG_db_not_found == <<"E", "r", "r", "o", "r", ":", " ", "D", "a", "t", "a", "b", "a", "s", "e", " ", "f", "i", "l", "e", " ", "n", "o", "t", " ", "f", "o", "u", "n", "d", " ", "a", "t", " ">>
SQL_list_tables == <<"S", "E", "L", "E", "C", "T", " ", "n", "a", "m", "e", " ", "F", "R", "O", "M", " ", "s", "q", "l", "i", "t", "e", "_", "m", "a", "s", "t", "e", "r", " ", "W", "H", "E", "R", "E", " ", "t", "y", "p", "e", "=", "'", "t", "a", "b", "l", "e", "'">>
MSG_tables_header == <<"T", "a", "b", "l", "e", "s", " ", "i", "n", " ", "d", "a", "t", "a", "b", "a", "s", "e", ":", "\n">>
MSG_table_name_required == <<"E", "r", "r", "o", "r", ":", " ", "t", "a", "b", "l", "e", "_", "n", "a", "m", "e", " ", "i", "s", " ", "r", "e", "q", "u", "i", "r", "e", "d">>
SQL_table_info_open == <<"P", "R", "A", "G", "M", "A", " ", "t", "a", "b", "l", "e", "_", "i", "n", "f", "o", "(">>
SQL_table_info_close == <<")">>
MSG_table_open == <<"T", "a", "b", "l", "e", " ", "'">>
MSG_table_not_found == <<"'", " ", "n", "o", "t", " ", "f", "o", "u", "n", "d">>
MSG_schema_open == <<"S", "c", "h", "e", "m", "a", " ", "f", "o", "r", " ", "t", "a", "b", "l", "e", " ", "'">>
MSG_schema_close == <<"'", ":", "\n">>
MSG_dash == <<"-", " ">>
MSG_colon == <<":", " ">>
MSG_primary_key == <<" ", "(", "P", "R", "I", "M", "A", "R", "Y", " ", "K", "E", "Y", ")">>
MSG_not_null == <<" ", "N", "O", "T", " ", "N", "U", "L", "L">>
MSG_default == <<" ", "D", "E", "F", "A", "U", "L", "T", " ">>
MSG_newline == <<"\n">>
MSG_query_required == <<"E", "r", "r", "o", "r", ":", " ", "q", "u", "e", "r", "y", " ", "i", "s", " ", "r", "e", "q", "u", "i", "r", "e", "d">>
KW_select == <<"s", "e", "l", "e", "c", "t">>
KW_pragma == <<"p", "r", "a", "g", "m", "a">>
MSG_query_results == <<"Q", "u", "e", "r", "y", " ", "r", "e", "s", "u", "l", "t", "s", ":", "\n">>
MSG_bar == <<" ", "|", " ">>
MSG_rule == <<"-">>
MSG_no_results == <<"Q", "u", "e", "r", "y", " ", "e", "x", "e", "c", "u", "t", "e", "d", " ", "s", "u", "c", "c", "e", "s", "s", "f", "u", "l", "l", "y", ".", " ", "N", "o", " ", "r", "e", "s", "u", "l", "t", "s", " ", "r", "e", "t", "u", "r", "n", "e", "d", ".">>
MSG_executed == <<"Q", "u", "e", "r", "y", " ", "e", "x", "e", "c", "u", "t", "e", "d", " ", "s", "u", "c", "c", "e", "s", "s", "f", "u", "l", "l", "y", ".", " ">>
MSG_rows_affected == <<" ", "r", "o", "w", "s", " ", "a", "f", "f", "e", "c", "t", "e", "d", ".">>
MSG_unknown_tool == <<"U", "n", "k", "n", "o", "w", "n", " ", "t", "o", "o", "l", ":", " ">>
MSG_sqlite_error == <<"S", "Q", "L", "i", "t", "e", " ", "e", "r", "r", "o", "r", ":", " ">>
MSG_error == <<"E", "r", "r", "o", "r", ":", " ">>
TOOL_list_tables == <<"l", "i", "s", "t", "_", "t", "a", "b", "l", "e", "s">>
TOOL_describe_table == <<"d", "e", "s", "c", "r", "i", "b", "e", "_", "t", "a", "b", "l", "e">>
TOOL_run_query == <<"r", "u", "n", "_", "q", "u", "e", "r", "y">>

\* --------------------------------------------------- Python str methods
Upper == <<"A", "B", "C", "D", "E", "F", "G", "H", "I", "J", "K", "L", "M", "N", "O", "P", "Q", "R", "S", "T", "U", "V", "W", "X", "Y", "Z">>
Lower == <<"a", "b", "c", "d", "e", "f", "g", "h", "i", "j", "k", "l", "m", "n", "o", "p", "q", "r", "s", "t", "u", "v", "w", "x", "y", "z">>
Whitespace == {" ", "\t", "\n", "\r"}

\* str.lower() on one character
LowerChar(c) ==
    IF \E i \in 1..Len(Upper) : Upper[i] = c
    THEN Lower[CHOOSE i \in 1..Len(Upper) : Upper[i] = c]
    ELSE c

\* str.lower()
PyLower(s) == [i \in 1..Len(s) |-> LowerChar(s[i])]

\* str.lstrip() and str.rstrip(), then str.strip()
RECURSIVE LStrip(_)
LStrip(s) == IF s # <<>> /\ Head(s) \in Whitespace THEN LStrip(Tail(s)) ELSE s

RECURSIVE RStrip(_)
RStrip(s) ==
    IF s # <<>> /\ s[Len(s)] \in Whitespace
    THEN RStrip(SubSeq(s, 1, Len(s) - 1))
    ELSE s

PyStrip(s) == RStrip(LStrip(s))

\* str.startswith(prefix)
StartsWith(s, prefix) ==
    Len(s) >= Len(prefix) /\ SubSeq(s, 1, Len(prefix)) = prefix

\* str.startswith((p1, p2))
StartsWithAny(s, prefixes) == \E p \in prefixes : StartsWith(s, p)

\* sep.join(parts)
RECURSIVE PyJoin(_, _)
PyJoin(sep, parts) ==
    IF parts = <<>> THEN <<>>
    ELSE IF Len(parts) = 1 THEN parts[1]
    ELSE parts[1] \o sep \o PyJoin(sep, Tail(parts))

\* "-" * n
RECURSIVE Repeat(_, _)
Repeat(s, n) == IF n <= 0 THEN <<>> ELSE s \o Repeat(s, n - 1)

\* str(n) of an integer
Digits == <<"0", "1", "2", "3", "4", "5", "6", "7", "8", "9">>

RECURSIVE StrNat(_)
StrNat(n) ==
    IF n < 10 THEN <<Digits[n + 1]>>
    ELSE StrNat(n \div 10) \o <<Digits[(n % 10) + 1]>>

StrInt(n) == IF n < 0 THEN <<"-">> \o StrNat(0 - n) ELSE StrNat(n)

\* the values a Python name can hold here: None, a str or an int
None == [kind |-> "None", s |-> <<>>, n |-> 0]
PyS(s) == [kind |-> "str", s |-> s, n |-> 0]
PyI(n) == [kind |-> "int", s |-> <<>>, n |-> n]

\* str(value), as an f-string or str(cell) renders it
PyStr(v) ==
    IF v.kind = "None" THEN <<"N", "o", "n", "e">>
    ELSE IF v.kind = "int" THEN StrInt(v.n)
    ELSE v.s

\* truth value of a Python value: None, "" and 0 are falsy
Truthy(v) ==
    IF v.kind = "None" THEN FALSE
    ELSE IF v.kind = "int" THEN v.n # 0
    ELSE v.s # <<>>

\* dict.get(key): None when the key is absent
DictGet(d, key) == IF key \in DOMAIN d THEN d[key] ELSE None

\* TextContent(type="text", text=...)
TextContent(text) == [type |-> "text", text |-> text]

\* ------------------------------------------------ the sqlite3 collaborator
\* The statements a client submits in this model (the query argument).
Q_select_1 == <<"S", "E", "L", "E", "C", "T", " ", "1">>
Q_count == <<" ", " ", "s", "e", "l", "e", "c", "t", " ", "c", "o", "u", "n", "t", "(", "*", ")", " ", "f", "r", "o", "m", " ", "t", "\n">>
Q_insert == <<"I", "N", "S", "E", "R", "T", " ", "I", "N", "T", "O", " ", "t", "(", "x", ")", " ", "V", "A", "L", "U", "E", "S", " ", "(", "1", ")">>
Q_delete == <<"d", "e", "l", "e", "t", "e", " ", "f", "r", "o", "m", " ", "t">>
Q_user_version == <<"\t", "P", "r", "a", "g", "m", "a", " ", "u", "s", "e", "r", "_", "v", "e", "r", "s", "i", "o", "n", " ", "=", " ", "1">>
Q_with == <<"W", "I", "T", "H", " ", "c", " ", "A", "S", " ", "(", "S", "E", "L", "E", "C", "T", " ", "1", ")", " ", "S", "E", "L", "E", "C", "T", " ", "*", " ", "F", "R", "O", "M", " ", "c">>
Q_typo == <<"S", "E", "L", "E", "C", " ", "1">>

\* exceptions: sqlite3.Error (and its subclasses) or any other Exception
NoExc == [cls |-> "none", msg |-> <<>>]
SqliteError(msg) == [cls |-> "sqlite3.Error", msg |-> msg]
OtherException(msg) == [cls |-> "Exception", msg |-> msg]

\* contents of the database file: rows of table t and the header's user_version
DbStates == [t : 0..MaxRowsT, user_version : {0, 1}]

IdentChars == {Lower[i] : i \in 1..Len(Lower)} \cup {Upper[i] : i \in 1..Len(Upper)}

\* the text is PRAGMA table_info(<identifier>)
IsTableInfo(sql) ==
    /\ StartsWith(sql, SQL_table_info_open)
    /\ Len(sql) > Len(SQL_table_info_open) + Len(SQL_table_info_close)
    /\ SubSeq(sql, Len(sql) - Len(SQL_table_info_close) + 1, Len(sql)) = SQL_table_info_close
    /\ \A i \in (Len(SQL_table_info_open) + 1)..(Len(sql) - Len(SQL_table_info_close)) :
           sql[i] \in IdentChars

\* what the engine makes of a statement text
StmtKind(sql) ==
    CASE sql = SQL_list_tables -> "catalog"
      [] IsTableInfo(sql) -> "table_info"
      [] sql = Q_select_1 -> "select_1"
      [] sql = Q_count -> "count"
      [] sql = Q_insert -> "insert"
      [] sql = Q_delete -> "delete"
      [] sql = Q_user_version -> "set_user_version"
      [] sql = Q_with -> "with_select"
      [] OTHER -> "syntax_error"

\* the sqlite3 module opens a transaction before INSERT/UPDATE/DELETE/REPLACE only
IsDml(kind) == kind \in {"insert", "delete"}

\* what a connection reads: its own uncommitted work inside a transaction
View(conn, db) == IF conn.in_transaction THEN conn.work ELSE db

\* the result of cursor.execute: an exception or a cursor state, the connection and the file after it
ExecResult(exc, rows, description, rowcount, conn, db) ==
    [exc |-> exc, rows |-> rows, description |-> description,
     rowcount |-> rowcount, conn |-> conn, db |-> db]

Begun(conn, db) ==
    IF conn.in_transaction THEN conn ELSE [in_transaction |-> TRUE, work |-> db]

\* what the engine does with a statement of the given kind; v is what conn reads
ExecuteKind(kind, v, conn, db, env) ==
    IF env.fail = "execute_other"
    THEN ExecResult(OtherException(<<>>), <<>>, <<>>, -1, conn, db)
    ELSE IF kind = "syntax_error"
    THEN ExecResult(SqliteError(<<"n", "e", "a", "r", " ", "\"", "S", "E", "L", "E", "C", "\"", ":", " ", "s", "y", "n", "t", "a", "x", " ", "e", "r", "r", "o", "r">>), <<>>, <<>>, -1, conn, db)
    ELSE IF env.fail = "execute"
    THEN ExecResult(SqliteError(<<"d", "a", "t", "a", "b", "a", "s", "e", " ", "i", "s", " ", "l", "o", "c", "k", "e", "d">>), <<>>, <<>>, -1,
                    IF IsDml(kind) THEN Begun(conn, db) ELSE conn, db)
    ELSE CASE kind = "catalog" ->
                ExecResult(NoExc, [i \in 1..Len(env.tables) |-> <<PyS(env.tables[i])>>],
                           <<<<"n", "a", "m", "e">>>>, -1, conn, db)
           [] kind = "table_info" ->
                ExecResult(NoExc, env.cols,
                           <<<<"c", "i", "d">>, <<"n", "a", "m", "e">>, <<"t", "y", "p", "e">>, <<"n", "o", "t", "n", "u", "l", "l">>, <<"d", "f", "l", "t", "_", "v", "a", "l", "u", "e">>, <<"p", "k">>>>,
                           -1, conn, db)
           [] kind = "select_1" ->
                ExecResult(NoExc, <<<<PyI(1)>>>>, <<<<"1">>>>, -1, conn, db)
           [] kind = "with_select" ->
                ExecResult(NoExc, <<<<PyI(1)>>>>, <<<<"1">>>>, -1, conn, db)
           [] kind = "count" ->
                ExecResult(NoExc, <<<<PyI(v.t)>>>>, <<<<"c", "o", "u", "n", "t", "(", "*", ")">>>>, -1, conn, db)
           [] kind = "insert" ->
                IF v.t < MaxRowsT
                THEN ExecResult(NoExc, <<>>, <<>>, 1,
                                [in_transaction |-> TRUE, work |-> [v EXCEPT !.t = v.t + 1]], db)
                ELSE ExecResult(SqliteError(<<"d", "a", "t", "a", "b", "a", "s", "e", " ", "o", "r", " ", "d", "i", "s", "k", " ", "i", "s", " ", "f", "u", "l", "l">>), <<>>, <<>>, -1,
                                Begun(conn, db), db)
           [] kind = "delete" ->
                ExecResult(NoExc, <<>>, <<>>, v.t,
                           [in_transaction |-> TRUE, work |-> [v EXCEPT !.t = 0]], db)
           [] kind = "set_user_version" ->
                IF conn.in_transaction
                THEN ExecResult(NoExc, <<>>, <<>>, -1,
                                [conn EXCEPT !.work = [v EXCEPT !.user_version = 1]], db)
                ELSE ExecResult(NoExc, <<>>, <<>>, -1, conn, [db EXCEPT !.user_version = 1])

\* cursor.execute(sql) on connection conn, the file holding db; env is the engine's side of the call
CursorExecute(sql, conn, db, env) == ExecuteKind(StmtKind(sql), View(conn, db), conn, db, env)

\* cursor.fetchall()
FetchAll(res) == res.rows

\* conn.commit(): the transaction's work becomes the file's contents
ConnCommit(conn, db, env) ==
    IF env.fail = "commit"
    THEN [exc |-> SqliteError(<<"d", "i", "s", "k", " ", "I", "/", "O", " ", "e", "r", "r", "o", "r">>), conn |-> conn, db |-> db]
    ELSE [exc |-> NoExc,
          conn |-> [in_transaction |-> FALSE, work |-> View(conn, db)],
          db |-> View(conn, db)]

\* sqlite3.connect(DB_PATH): creates the file when it is missing
Connect(db, env) ==
    IF env.fail = "connect"
    THEN [exc |-> SqliteError(<<"u", "n", "a", "b", "l", "e", " ", "t", "o", " ", "o", "p", "e", "n", " ", "d", "a", "t", "a", "b", "a", "s", "e", " ", "f", "i", "l", "e">>),
          conn |-> [in_transaction |-> FALSE, work |-> db]]
    ELSE [exc |-> NoExc, conn |-> [in_transaction |-> FALSE, work |-> db]]

\* --------------------------------------------------------------- call_tool
\* How the try body ends: it falls through to conn.close() with a result text,
\* returns early, or raises.  events lists the collaborator calls made so far.
Flow(how, text, exc, events, conn, db, res) ==
    [how |-> how, text |-> text, exc |-> exc, events |-> events,
     conn |-> conn, db |-> db, res |-> res]

NoRes(conn, db) == ExecResult(NoExc, <<>>, <<>>, -1, conn, db)

\* cursor.execute raised: control leaves the try body
Raised(res) == Flow("raise", <<>>, res.exc, <<"execute">>, res.conn, res.db, res)

\* a call_tool that skips the existence check
PathExistsUnchecked(exists) == TRUE

\* os.path.exists(DB_PATH): line 65
PathExists(exists) == exists

\* lines 75-77, given the cursor after execute
ListTablesResult(res) ==
    LET tables == FetchAll(res)
        table_names == [i \in 1..Len(tables) |-> tables[i][1]]
    IN  Flow("result",
             MSG_tables_header \o
             PyJoin(MSG_newline, [i \in 1..Len(table_names) |-> MSG_dash \o PyStr(table_names[i])]),
             NoExc, <<"execute", "fetchall">>, res.conn, res.db, res)

ListTablesAfter(res) == IF res.exc # NoExc THEN Raised(res) ELSE ListTablesResult(res)

\* name == "list_tables": lines 74-77
ListTablesBranch(conn, db, env) ==
    ListTablesAfter(CursorExecute(SQL_list_tables, conn, db, env))

\* a loop body that tests notnull with elif instead of if
ColumnLineElif(col) ==
    MSG_dash \o PyStr(col[2]) \o MSG_colon \o PyStr(col[3])
    \o (IF Truthy(col[6]) THEN MSG_primary_key
        ELSE IF Truthy(col[4]) THEN MSG_not_null ELSE <<>>)
    \o (IF col[5] # None THEN MSG_default \o PyStr(col[5]) ELSE <<>>)
    \o MSG_newline

\* one pass of the loop over the columns, col = (cid, name, type_, notnull, default, pk): lines 91-99
ColumnLine(col) ==
    MSG_dash \o PyStr(col[2]) \o MSG_colon \o PyStr(col[3])
    \o (IF Truthy(col[6]) THEN MSG_primary_key ELSE <<>>)
    \o (IF Truthy(col[4]) THEN MSG_not_null ELSE <<>>)
    \o (IF col[5] # None THEN MSG_default \o PyStr(col[5]) ELSE <<>>)
    \o MSG_newline

RECURSIVE ColumnLines(_)
ColumnLines(columns) ==
    IF columns = <<>> THEN <<>> ELSE ColumnLine(Head(columns)) \o ColumnLines(Tail(columns))

\* lines 85-99, given the cursor after execute
DescribeTableResult(table_name, res) ==
    LET columns == FetchAll(res)
    IN  Flow("result",
             IF columns = <<>>
             THEN MSG_table_open \o PyStr(table_name) \o MSG_table_not_found
             ELSE MSG_schema_open \o PyStr(table_name) \o MSG_schema_close \o ColumnLines(columns),
             NoExc, <<"execute", "fetchall">>, res.conn, res.db, res)

DescribeTableAfter(table_name, res) ==
    IF res.exc # NoExc THEN Raised(res) ELSE DescribeTableResult(table_name, res)

\* lines 81-99, given table_name = arguments.get("table_name")
DescribeTable(table_name, conn, db, env) ==
    IF ~Truthy(table_name)
    THEN Flow("return", MSG_table_name_required, NoExc, <<>>, conn, db, NoRes(conn, db))
    ELSE DescribeTableAfter(
             table_name,
             CursorExecute(SQL_table_info_open \o PyStr(table_name) \o SQL_table_info_close,
                           conn, db, env))

\* name == "describe_table": lines 80-99
DescribeTableBranch(arguments, conn, db, env) ==
    DescribeTable(DictGet(arguments, "table_name"), conn, db, env)

\* a classification that forgets strip()
IsReadQueryNoStrip(query) == StartsWithAny(PyLower(query), {KW_select, KW_pragma})

\* query.strip().lower().startswith(('select', 'pragma')): line 107
IsReadQuery(query) == StartsWithAny(PyLower(PyStrip(query)), {KW_select, KW_pragma})

\* the grid of a non-empty result: lines 111-116
RECURSIVE RowLines(_)
RowLines(rows) ==
    IF rows = <<>> THEN <<>>
    ELSE PyJoin(MSG_bar, [i \in 1..Len(Head(rows)) |-> PyStr(Head(rows)[i])]) \o MSG_newline
         \o RowLines(Tail(rows))

Grid(columns, rows) ==
    MSG_query_results
    \o PyJoin(MSG_bar, columns) \o MSG_newline
    \o Repeat(MSG_rule, Len(PyJoin(MSG_bar, columns))) \o MSG_newline
    \o RowLines(rows)

\* the read path: lines 108-118
ReadPath(res) ==
    Flow("result",
         IF FetchAll(res) # <<>> THEN Grid(res.description, FetchAll(res)) ELSE MSG_no_results,
         NoExc, <<"execute", "fetchall">>, res.conn, res.db, res)

\* line 121, given the outcome c of conn.commit()
Committed(res, c) ==
    IF c.exc # NoExc
    THEN Flow("raise", <<>>, c.exc, <<"execute", "commit">>, c.conn, c.db, res)
    ELSE Flow("result", MSG_executed \o StrInt(res.rowcount) \o MSG_rows_affected,
              NoExc, <<"execute", "commit">>, c.conn, c.db, res)

\* a mutation path that forgets conn.commit()
MutationPathNoCommit(res, env) ==
    Flow("result", MSG_executed \o StrInt(res.rowcount) \o MSG_rows_affected,
         NoExc, <<"execute">>, res.conn, res.db, res)

\* the mutation path: lines 120-121
MutationPath(res, env) == Committed(res, ConnCommit(res.conn, res.db, env))

\* lines 107-121, given the cursor after execute
RunQueryAfter(query, res, env) ==
    IF res.exc # NoExc THEN Raised(res)
    ELSE IF IsReadQuery(query) THEN ReadPath(res)
    ELSE MutationPath(res, env)

\* lines 103-121, given query = arguments.get("query")
RunQuery(query, conn, db, env) ==
    IF ~Truthy(query)
    THEN Flow("return", MSG_query_required, NoExc, <<>>, conn, db, NoRes(conn, db))
    ELSE RunQueryAfter(PyStr(query), CursorExecute(PyStr(query), conn, db, env), env)

\* name == "run_query": lines 102-121
RunQueryBranch(arguments, conn, db, env) ==
    RunQuery(DictGet(arguments, "query"), conn, db, env)

\* a chain whose last elif is an else: every other name runs the query
BranchElseRunQuery(name) ==
    IF name = TOOL_list_tables THEN "list_tables"
    ELSE IF name = TOOL_describe_table THEN "describe_table"
    ELSE "run_query"

\* the if/elif/else chain on name: lines 73, 79, 101, 123
Branch(name) ==
    IF name = TOOL_list_tables THEN "list_tables"
    ELSE IF name = TOOL_describe_table THEN "describe_table"
    ELSE IF name = TOOL_run_query THEN "run_query"
    ELSE "else"

\* an else branch whose string lost its f prefix
UnknownToolResultNoF(name) == MSG_unknown_tool \o <<"{", "n", "a", "m", "e", "}">>

\* the else branch: line 124
UnknownToolResult(name) == MSG_unknown_tool \o name

\* the branch b of the chain
Dispatch(b, name, arguments, conn, db, env) ==
    CASE b = "list_tables" -> ListTablesBranch(conn, db, env)
      [] b = "describe_table" -> DescribeTableBranch(arguments, conn, db, env)
      [] b = "run_query" -> RunQueryBranch(arguments, conn, db, env)
      [] OTHER -> Flow("result", UnknownToolResult(name), NoExc, <<>>, conn, db, NoRes(conn, db))

\* a handler without the except Exception clause: other failures propagate
ExceptHandlerSqliteOnly(exc) ==
    IF exc.cls = "sqlite3.Error"
    THEN [reply |-> <<TextContent(MSG_sqlite_error \o exc.msg)>>, fault |-> NoExc]
    ELSE [reply |-> <<>>, fault |-> exc]

\* the two except clauses: lines 130-135
ExceptHandler(exc) ==
    IF exc.cls = "sqlite3.Error"
    THEN [reply |-> <<TextContent(MSG_sqlite_error \o exc.msg)>>, fault |-> NoExc]
    ELSE [reply |-> <<TextContent(MSG_error \o exc.msg)>>, fault |-> NoExc]

\* what one call leaves behind
Outcome(reply, fault, how, events, db, open, exists, exc, res) ==
    [reply |-> reply, fault |-> fault, how |-> how, events |-> events, db |-> db,
     open |-> open, exists |-> exists, exc |-> exc, res |-> res]

\* an exception reached the except clauses with the connections in open left unclosed
Handled(h, events, db, open, exc, res) ==
    Outcome(h.reply, h.fault, "raise", events, db, open, TRUE, exc, res)

\* lines 126-135, given how the try body ended
Leave(f) ==
    CASE f.how = "result" ->
           \* conn.close() discards a transaction that was not committed
           Outcome(<<TextContent(f.text)>>, NoExc, "result",
                   <<"exists", "connect", "cursor">> \o f.events \o <<"close">>,
                   f.db, <<>>, TRUE, NoExc, f.res)
      [] f.how = "return" ->
           Outcome(<<TextContent(f.text)>>, NoExc, "return",
                   <<"exists", "connect", "cursor">> \o f.events,
                   f.db, <<f.conn>>, TRUE, NoExc, f.res)
      [] OTHER ->
           Handled(ExceptHandler(f.exc), <<"exists", "connect", "cursor">> \o f.events,
                   f.db, <<f.conn>>, f.exc, f.res)

\* lines 70-135, given the outcome c of sqlite3.connect
Connected(c, name, arguments, exists, db, env) ==
    IF c.exc # NoExc
    THEN Outcome(ExceptHandler(c.exc).reply, ExceptHandler(c.exc).fault, "raise",
                 <<"exists", "connect">>, db, <<>>, exists, c.exc, NoRes(c.conn, db))
    ELSE Leave(Dispatch(Branch(name), name, arguments, c.conn, db, env))

\* call_tool(name, arguments) on a file that exists or not and holds db: lines 62-135
call_tool(name, arguments, exists, db, env) ==
    IF ~PathExists(exists)
    THEN Outcome(<<TextContent(MSG_db_not_found \o DB_PATH)>>, NoExc, "nofile",
                 <<"exists">>, db, <<>>, exists, NoExc,
                 NoRes([in_transaction |-> FALSE, work |-> db], db))
    ELSE Connected(Connect(db, env), name, arguments, exists, db, env)

\* ------------------------------------------------------------------ state
VARIABLES
    db_file_exists,  \* os.path.exists(DB_PATH)
    committed,       \* the committed contents of the database file
    open_conns,      \* how many connections earlier calls opened and never closed
    reply,           \* what the last call returned to the transport
    fault,           \* the exception the last call let through to the transport
    last             \* the last call: its inputs and the path it took

vars == <<db_file_exists, committed, open_conns, reply, fault, last>>

\* ----------------------------------------------------------------- inputs
EmptyDict == [k \in {} |-> None]

TableNames == {<<"t">>, <<"z", "z">>}
Queries == {Q_select_1, Q_count, Q_insert, Q_delete, Q_user_version, Q_with, Q_typo}

\* argument bags: empty, table_name or query missing, empty or given
ArgBags ==
    {EmptyDict, "table_name" :> PyS(<<>>), "query" :> PyS(<<>>)}
    \cup {"table_name" :> PyS(t) : t \in TableNames}
    \cup {"query" :> PyS(q) : q \in Queries}

UnknownNames == {<<"d", "r", "o", "p", "_", "t", "a", "b", "l", "e">>, <<>>}

\* where the engine fails during the call, if it does
Fails == {"none", "connect", "execute", "execute_other", "commit"}

\* a row of PRAGMA table_info: (cid, name, type, notnull, dflt_value, pk)
ColumnRow(i, flags) ==
    <<PyI(i - 1), PyS(<<Lower[i]>>), PyS(<<"I", "N", "T">>),
      PyI(IF flags.notnull THEN 1 ELSE 0),
      IF flags.dflt THEN PyS(<<"0">>) ELSE None,
      PyI(IF flags.pk THEN i ELSE 0)>>

\* the k-th of the eight combinations of the three flags
FlagsOf(k) ==
    [notnull |-> k % 2 = 1, dflt |-> (k \div 2) % 2 = 1, pk |-> (k \div 4) % 2 = 1]

\* the tables reflection can return: up to MaxCols columns, every combination
\* of flags at every position
ColSeqs ==
    {[i \in 1..n |-> ColumnRow(i, FlagsOf((k + i - 1) % 8))] : n \in 0..MaxCols, k \in 0..7}

TableLists == {<<>>, <<<<"t">>>>, <<<<"t">>, <<"u">>>>}

Env(fail, cols, tables) == [fail |-> fail, cols |-> cols, tables |-> tables]

\* the calls the transport delivers: every argument bag with a working engine,
\* and every engine failure
ListTablesInputs ==
    {<<a, Env("none", <<>>, <<<<"t">>>>)>> : a \in ArgBags}
    \cup {<<EmptyDict, Env(f, <<>>, tl)>> : f \in Fails, tl \in TableLists}

DescribeTableInputs ==
    {<<a, Env(f, <<>>, <<>>)>> : a \in ArgBags, f \in Fails}
    \cup {<<"table_name" :> PyS(t), Env("none", cols, <<>>)>> : t \in TableNames, cols \in ColSeqs}

RunQueryInputs == {<<a, Env(f, <<>>, <<>>)>> : a \in ArgBags, f \in Fails}

UnknownInputs ==
    {<<a, Env("none", <<>>, <<>>)>> : a \in ArgBags}
    \cup {<<EmptyDict, Env(f, <<>>, <<>>)>> : f \in Fails}

NoCall ==
    [called |-> FALSE, name |-> <<>>, arguments |-> EmptyDict, pre_exists |-> FALSE,
     pre_open |-> 0, how |-> "none", events |-> <<>>, exc |-> NoExc,
     res |-> NoRes([in_transaction |-> FALSE, work |-> [t |-> 0, user_version |-> 0]],
                   [t |-> 0, user_version |-> 0])]

Init ==
    /\ db_file_exists \in BOOLEAN
    /\ committed \in DbStates
    /\ open_conns = 0
    /\ reply = <<>>
    /\ fault = NoExc
    /\ last = NoCall

\* the state after a call that left o behind
Returns(o, name, arguments) ==
    /\ db_file_exists' = o.exists
    /\ committed' = o.db
    /\ open_conns' = open_conns + Len(o.open)
    /\ reply' = o.reply
    /\ fault' = o.fault
    /\ last' = [called |-> TRUE, name |-> name, arguments |-> arguments,
                pre_exists |-> db_file_exists, pre_open |-> open_conns,
                how |-> o.how, events |-> o.events, exc |-> o.exc, res |-> o.res]

\* The transport delivers one call; the handler runs to its return.
CallTool(name, arguments, env) ==
    /\ open_conns < MaxLeaked
    /\ Returns(call_tool(name, arguments, db_file_exists, committed, env), name, arguments)

CallListTables ==
    \E s \in ListTablesInputs : CallTool(TOOL_list_tables, s[1], s[2])

CallDescribeTable ==
    \E s \in DescribeTableInputs : CallTool(TOOL_describe_table, s[1], s[2])

CallRunQuery ==
    \E s \in RunQueryInputs : CallTool(TOOL_run_query, s[1], s[2])

CallUnknown ==
    \E name \in UnknownNames, s \in UnknownInputs : CallTool(name, s[1], s[2])

\* The collector finalizes a connection object nothing refers to any more;
\* a transaction it still holds is rolled back.
Finalize ==
    /\ open_conns > 0
    /\ open_conns' = open_conns - 1
    /\ UNCHANGED <<db_file_exists, committed, reply, fault, last>>

Next ==
    \/ CallListTables
    \/ CallDescribeTable
    \/ CallRunQuery
    \/ CallUnknown
    \/ Finalize

Spec == Init /\ [][Next]_vars


TypeOK ==
    /\ db_file_exists \in BOOLEAN
    /\ committed \in DbStates
    /\ open_conns \in 0..MaxLeaked
    /\ last.called => last.name \in {TOOL_list_tables, TOOL_describe_table, TOOL_run_query} \cup UnknownNames

\* ------------------------------------------------- vocabulary of the claims
Has(events, e) == \E i \in 1..Len(events) : events[i] = e

\* e1 occurs, and every occurrence of e2 comes after it
Before(events, e1, e2) ==
    \E i \in 1..Len(events) :
        events[i] = e1 /\ \A j \in 1..Len(events) : events[j] = e2 => i < j

Contains(s, sub) ==
    \E i \in 1..(Len(s) - Len(sub) + 1) : SubSeq(s, i, i + Len(sub) - 1) = sub

EndsWith(s, suffix) ==
    Len(s) >= Len(suffix) /\ SubSeq(s, Len(s) - Len(suffix) + 1, Len(s)) = suffix

\* the lines of a text, without their terminators
RECURSIVE SplitLines(_)
SplitLines(s) ==
    IF s = <<>> THEN <<>>
    ELSE IF \E i \in 1..Len(s) : s[i] = "\n"
    THEN LET i == CHOOSE k \in 1..Len(s) : s[k] = "\n" /\ \A j \in 1..(k - 1) : s[j] # "\n"
         IN  <<SubSeq(s, 1, i - 1)>> \o SplitLines(SubSeq(s, i + 1, Len(s)))
    ELSE <<s>>

\* the last call got as far as a successful sqlite3.connect
Opened == Has(last.events, "cursor")
Closed == Has(last.events, "close")
Registered == {TOOL_list_tables, TOOL_describe_table, TOOL_run_query}
TableNameArg == DictGet(last.arguments, "table_name")
QueryArg == DictGet(last.arguments, "query")
Missing(v) == v = None \/ v = PyS(<<>>)
OneText(text) == <<[type |-> "text", text |-> text]>>
\* cursor.execute was called and returned
Executed == Has(last.events, "execute") /\ last.res.exc = NoExc

\* the text begins, after leading whitespace and in any case, with select or pragma
BeginsWithSelectOrPragma(q) ==
    \E n \in 0..Len(q) :
        /\ \A i \in 1..n : q[i] \in Whitespace
        /\ n < Len(q) => q[n + 1] \notin Whitespace
        /\ Len(q) >= n + 6
        /\ \E kw \in {KW_select, KW_pragma} :
               \A i \in 1..6 : q[n + i] = kw[i] \/ \E u \in 1..Len(Upper) : q[n + i] = Upper[u] /\ Lower[u] = kw[i]

\* ------------------------------------------------------------------ claims

\* C1: every call that opens a connection closes it before it returns its
\* reply, on every exit path (success, missing argument, engine error,
\* unexpected failure).
C1_ClosedOnEveryExit == (last.called /\ Opened) => Closed

\* C2: while the database file does not exist, every call, whatever its name
\* and arguments, replies exactly "Error: Database file not found at <path>",
\* attempts no connection, does not create the file and leaves the database
\* contents as they were.
C2_MissingFileShortCircuits ==
    /\ [](last.called /\ ~last.pre_exists =>
            /\ reply = OneText(MSG_db_not_found \o DB_PATH)
            /\ fault = NoExc
            /\ last.events = <<"exists">>
            /\ ~db_file_exists)
    /\ [][~db_file_exists =>
            /\ ~db_file_exists'
            /\ committed' = committed
            /\ open_conns' <= open_conns]_vars

C2_Witness ==
    /\ last.called /\ ~last.pre_exists
    /\ last.name = TOOL_run_query
    /\ QueryArg = PyS(Q_insert)
    /\ reply = OneText(MSG_db_not_found \o DB_PATH)

\* C3: a describe_table call without a table_name (or a run_query call
\* without a query) replies "Error: <param> is required" and no connection is
\* opened at any point during the call.
C3_ValidationBeforeConnection ==
    /\ (last.called /\ last.pre_exists /\ last.name = TOOL_describe_table /\ Missing(TableNameArg))
         => reply = OneText(MSG_table_name_required) /\ ~Has(last.events, "connect")
    /\ (last.called /\ last.pre_exists /\ last.name = TOOL_run_query /\ Missing(QueryArg))
         => reply = OneText(MSG_query_required) /\ ~Has(last.events, "connect")

C5_OneNonEmptySegment ==
    last.called =>
        /\ Len(reply) = 1
        /\ reply[1].type = "text"
        /\ Len(reply[1].text) > 0
        /\ fault = NoExc

C5_Witness ==
    /\ last.called
    /\ last.exc = OtherException(<<>>)
    /\ reply = OneText(MSG_error)

\* C6: when run_query runs a statement classified as a mutation and neither
\* the statement nor the commit fails, the reply is "Query executed
\* successfully. N rows affected." with N the cursor's rowcount, the commit
\* precedes the close and the return, and the file then holds what the
\* statement left in the connection; a later SELECT count on a fresh
\* connection returns the committed row count.
C6_MutationCommitted ==
    /\ []((/\ last.called /\ last.name = TOOL_run_query /\ ~Missing(QueryArg)
           /\ ~BeginsWithSelectOrPragma(QueryArg.s)
           /\ Executed /\ last.exc = NoExc) =>
              /\ reply = OneText(MSG_executed \o StrInt(last.res.rowcount) \o MSG_rows_affected)
              /\ Before(last.events, "commit", "close")
              /\ Closed
              /\ committed = View(last.res.conn, last.res.db))
    /\ [][(/\ last'.name = TOOL_run_query
           /\ DictGet(last'.arguments, "query") = PyS(Q_count)
           /\ Has(last'.events, "execute") /\ last'.res.exc = NoExc) =>
              last'.res.rows = <<<<PyI(committed.t)>>>>]_vars

C6_Witness ==
    /\ last.called /\ QueryArg = PyS(Q_insert) /\ last.name = TOOL_run_query
    /\ reply = OneText(<<"Q", "u", "e", "r", "y", " ", "e", "x", "e", "c", "u", "t", "e", "d", " ", "s", "u", "c", "c", "e", "s", "s", "f", "u", "l", "l", "y", ".", " ", "1", " ", "r", "o", "w", "s", " ", "a", "f", "f", "e", "c", "t", "e", "d", ".">>)
    /\ committed.t = 1
    /\ last.res.db.t = 0

\* the reflection of the last describe_table call, when it returned
Reflected ==
    /\ last.called /\ last.pre_exists
    /\ last.name = TOOL_describe_table /\ ~Missing(TableNameArg)
    /\ Executed

\* the line of the reply that renders a reflected column
LineOf(i) == SplitLines(reply[1].text)[i + 1]

\* C7: describe_table with a non-empty table name on an existing file replies
\* "Table '<T>' not found" exactly when reflection returns no column;
\* otherwise the reply has a header and one line per column in declaration
\* order, and on each line "(PRIMARY KEY)", "NOT NULL" and "DEFAULT <value>"
\* appear exactly when pk is set, notnull is set and the default is not null.
C7_DescribeTableLines ==
    Reflected =>
        LET T == TableNameArg.s
            cols == last.res.rows
            text == reply[1].text
        IN  /\ Len(reply) = 1
            /\ (text = MSG_table_open \o T \o MSG_table_not_found) <=> (cols = <<>>)
            /\ cols # <<>> =>
                 /\ Len(SplitLines(text)) = 1 + Len(cols)
                 /\ SplitLines(text)[1] = MSG_schema_open \o T \o <<"'", ":">>
                 /\ text[Len(text)] = "\n"
                 /\ \A i \in 1..Len(cols) :
                      /\ StartsWith(LineOf(i), MSG_dash \o cols[i][2].s \o MSG_colon \o cols[i][3].s)
                      /\ Contains(LineOf(i), MSG_primary_key) <=> cols[i][6].n # 0
                      /\ Contains(LineOf(i), MSG_not_null) <=> cols[i][4].n # 0
                      /\ Contains(LineOf(i), MSG_default) <=> cols[i][5] # None
                      /\ cols[i][5] # None => EndsWith(LineOf(i), MSG_default \o PyStr(cols[i][5]))

C7_Witness ==
    /\ Reflected
    /\ Len(last.res.rows) = 2
    /\ last.res.rows[1][6].n # 0 /\ last.res.rows[1][4].n # 0 /\ last.res.rows[1][5] # None
    /\ last.res.rows[2][6].n = 0 /\ last.res.rows[2][4].n = 0 /\ last.res.rows[2][5] = None
    /\ reply = OneText(<<"S", "c", "h", "e", "m", "a", " ", "f", "o", "r", " ", "t", "a", "b", "l", "e", " ", "'", "t", "'", ":", "\n", "-", " ", "a", ":", " ", "I", "N", "T", " ", "(", "P", "R", "I", "M", "A", "R", "Y", " ", "K", "E", "Y", ")", " ", "N", "O", "T", " ", "N", "U", "L", "L", " ", "D", "E", "F", "A", "U", "L", "T", " ", "0", "\n", "-", " ", "b", ":", " ", "I", "N", "T", "\n">>)

\* the last call was a run_query whose statement the engine executed
RanQuery ==
    /\ last.called /\ last.name = TOOL_run_query /\ ~Missing(QueryArg)
    /\ Executed

\* C8: run_query takes the read path exactly when the text, trimmed and
\* lower-cased, begins with select or pragma; the read path fetches and never
\* commits; every other text is committed and answered with a row count,
\* even when the statement produced rows.
C8_ClassifiedByText ==
    RanQuery =>
        /\ Has(last.events, "fetchall") <=> BeginsWithSelectOrPragma(QueryArg.s)
        /\ Has(last.events, "commit") <=> ~BeginsWithSelectOrPragma(QueryArg.s)
        /\ (Has(last.events, "commit") /\ last.exc = NoExc) =>
               reply = OneText(MSG_executed \o StrInt(last.res.rowcount) \o MSG_rows_affected)
        /\ Has(last.events, "fetchall") =>
               \/ last.res.rows = <<>> /\ reply = OneText(MSG_no_results)
               \/ last.res.rows # <<>> /\ StartsWith(reply[1].text, MSG_query_results)

C8_Witness ==
    /\ RanQuery
    /\ QueryArg = PyS(Q_with)
    /\ last.res.rows # <<>>
    /\ Has(last.events, "commit")
    /\ reply = OneText(<<"Q", "u", "e", "r", "y", " ", "e", "x", "e", "c", "u", "t", "e", "d", " ", "s", "u", "c", "c", "e", "s", "s", "f", "u", "l", "l", "y", ".", " ", "-", "1", " ", "r", "o", "w", "s", " ", "a", "f", "f", "e", "c", "t", "e", "d", ".">>)

\* C9: connections never overlap: no connection opened by an earlier call is
\* still open when a later call opens its own, and at most one is open at any
\* moment.
C9_ConnectionsNeverOverlap ==
    /\ open_conns <= 1
    /\ (last.called /\ Opened) => last.pre_open = 0

=============================================================================
